---------------------------- MODULE Spec2Model ----------------------------
(***************************************************************************)
(* Model of the agentic-rag-chat middleware: the Redis session store       *)
(* (sessions.py), the token budget trimmer (tokens.py), the guardrails     *)
(* (guardrails.py), the retrieval context builder (rag.py) and the chat    *)
(* turn handler with its streaming generator (main.py).                    *)
(*                                                                         *)
(* A text is a sequence of units.  A unit is one character where the       *)
(* guardrails look at characters, or an opaque long passage ("W").  The    *)
(* pattern lists of guardrails.py are configuration data; the model keeps  *)
(* two patterns of each list, spelled over the model's alphabet.           *)
(***************************************************************************)
EXTENDS Integers, Sequences, FiniteSets, TLC

(***************************************************************************)
(* Program constants (config.py, tokens.py, sessions.py, main.py)          *)
(***************************************************************************)
MAX_TOKENS_CONTEXT == 28000
RATE_LIMIT_PER_MIN == 20
RATE_LIMIT_PER_HOUR_SESSION == 100
MAX_MESSAGES_PER_SESSION == 50
SESSION_TTL == 86400
ROLE_OVERHEAD == 4
keep == 6
IP_WINDOW == 60
RATE_WINDOW == 3600

(***************************************************************************)
(* Bounds of the model                                                     *)
(***************************************************************************)
\* number of chat requests that are issued
NumTurns == 2
\* content lines the upstream sends in one streamed completion, at most
MaxLines == 2
\* token count of the opaque long passage "W"
LongPassageTokens == 4000
\* the clock stops advancing by seconds here
MaxNow == 60
\* whole rate windows (hours) that pass, at most
MaxHours == 1
\* length of the texts the guardrail functions are applied to one by one
MaxLen == 3

\* `session_id: str | None = None`: the request names no session
NoSid == -1

(***************************************************************************)
(* Texts                                                                   *)
(***************************************************************************)
\* str.lower, on one unit
LowerUnit(u) == IF u = "S" THEN "s" ELSE IF u = "P" THEN "p" ELSE u

\* str.lower
Lower(text) == [i \in 1..Len(text) |-> LowerUnit(text[i])]

\* `pattern in text`
Contains(text, pattern) ==
    \E i \in 1..(Len(text) - Len(pattern) + 1) :
        SubSeq(text, i, i + Len(pattern) - 1) = pattern

\* the characters CJK_RE matches
IsCJK(u) == u = "c"

NotCJK(u) == ~IsCJK(u)

RECURSIVE Concat(_)
\* "".join(parts)
Concat(parts) == IF parts = <<>> THEN <<>> ELSE Head(parts) \o Concat(Tail(parts))

(***************************************************************************)
(* guardrails.py                                                           *)
(***************************************************************************)
SAFE_RESPONSE == <<"h", "k">>

INPUT_BLOCKED == {<<"s", "p">>, <<"d", "o">>}

LEAK_PATTERNS == {<<"s", "p">>, <<"m", "p">>}

\* the reply that is sent instead, or NoText (Python's None) if the text is clean
NoText == <<>>

\* a check_input that answers with the phrase it found
check_input_pattern(text) ==
    IF \E pattern \in INPUT_BLOCKED : Contains(Lower(text), pattern)
    THEN CHOOSE pattern \in INPUT_BLOCKED : Contains(Lower(text), pattern)
    ELSE NoText

check_input(text) ==
    IF \E pattern \in INPUT_BLOCKED : Contains(Lower(text), pattern)
    THEN SAFE_RESPONSE
    ELSE NoText

RECURSIVE sanitise_chunk_leading(_)
\* a sanitise_chunk that strips the script at the start of the chunk only
sanitise_chunk_leading(text) ==
    IF text = <<>> THEN <<>>
    ELSE IF IsCJK(Head(text)) THEN sanitise_chunk_leading(Tail(text))
    ELSE text

sanitise_chunk(text) == SelectSeq(text, NotCJK)

\* a check_output_final that puts the safe reply in front of a leaking text
check_output_final_prefix(text) ==
    LET clean == SelectSeq(text, NotCJK)
    IN  IF \E pattern \in LEAK_PATTERNS : Contains(Lower(clean), pattern)
        THEN SAFE_RESPONSE \o clean
        ELSE clean

\* a check_output_final that strips the script and scans for nothing
check_output_final_strip(text) == SelectSeq(text, NotCJK)

check_output_final(text) ==
    LET clean == SelectSeq(text, NotCJK)
        lower == Lower(clean)
    IN  IF \E pattern \in LEAK_PATTERNS : Contains(lower, pattern)
        THEN SAFE_RESPONSE
        ELSE clean

(***************************************************************************)
(* tokens.py                                                               *)
(***************************************************************************)
UnitTokens(u) == IF u = "W" THEN LongPassageTokens ELSE 1

RECURSIVE count_tokens(_)
\* len(enc.encode(text)): the tokenizer is a library; a unit is one token,
\* the long passage LongPassageTokens of them
count_tokens(text) ==
    IF text = <<>> THEN 0 ELSE UnitTokens(Head(text)) + count_tokens(Tail(text))

RECURSIVE count_messages_tokens(_)
count_messages_tokens(messages) ==
    IF messages = <<>> THEN 0
    ELSE count_tokens(Head(messages).content) + ROLE_OVERHEAD
             + count_messages_tokens(Tail(messages))

Msg(role, content) == [role |-> role, content |-> content]

\* messages[-n:]
LastN(s, n) == IF Len(s) > n THEN SubSeq(s, Len(s) - n + 1, Len(s)) ELSE s

\* messages[:-n]
DropLastN(s, n) == IF Len(s) > n THEN SubSeq(s, 1, Len(s) - n) ELSE <<>>

SUMMARY_MARKER == <<"[">>

RECURSIVE PopLoopFirst(_, _)
\* a truncation loop that drops the first message: trimmed.pop(0)
PopLoopFirst(trimmed, budget) ==
    IF count_messages_tokens(trimmed) > budget /\ Len(trimmed) > 2
    THEN PopLoopFirst(Tail(trimmed), budget)
    ELSE trimmed

RECURSIVE PopLoop(_, _)
\* while count_messages_tokens(trimmed) > budget and len(trimmed) > 2: trimmed.pop(1)
PopLoop(trimmed, budget) ==
    IF count_messages_tokens(trimmed) > budget /\ Len(trimmed) > 2
    THEN PopLoop(<<trimmed[1]>> \o SubSeq(trimmed, 3, Len(trimmed)), budget)
    ELSE trimmed

Budget(system_prompt) == MAX_TOKENS_CONTEXT - (count_tokens(system_prompt) + ROLE_OVERHEAD)

\* does trim_history call summarise_messages
CallsSummariser(system_prompt, messages) ==
    /\ count_messages_tokens(messages) > Budget(system_prompt)
    /\ Len(messages) > keep

\* a trim_history that always cuts down to the recent messages
trim_history_recent(system_prompt, messages, summ) == LastN(messages, keep)

\* a trim_history that gives the messages back untrimmed
trim_history_whole(system_prompt, messages, summ) == messages

\* summ is what summarise_messages does when called: it raises (ok = FALSE) or
\* returns the summary text
trim_history(system_prompt, messages, summ) ==
    LET budget == Budget(system_prompt)
        recent == LastN(messages, keep)
        old    == DropLastN(messages, keep)
    IN  IF count_messages_tokens(messages) <= budget THEN messages
        ELSE IF old = <<>> THEN recent
        ELSE IF ~summ.ok THEN recent
        ELSE PopLoop(<<Msg("system", SUMMARY_MARKER \o summ.text)>> \o recent, budget)


(***************************************************************************)
(* State                                                                   *)
(***************************************************************************)
VARIABLES
    now,      \* time.time(), in seconds
    ip_hits,  \* main._ip_hits: per client address, the times of its counted requests
    store,    \* Redis keys agent:session:<id>: the session and its expiry time
    rate,     \* Redis keys agent:rate:session:<id>: the count and its expiry time
    nextSid,  \* the id the next uuid4() call draws
    turn      \* per chat request: where its handler stands and its local variables

vars == <<now, ip_hits, store, rate, nextSid, turn>>

Turns == 1..NumTurns

\* ids create_session can draw; BogusSid is an id no create_session ever drew
BogusSid == 0
FirstSid == 1
SessionIds == FirstSid..(FirstSid + 2 * NumTurns)
Ips == {"ip1", "ip2"}
NoIp == "none"

\* the text a client types in turn t: a clean message (distinct per turn) or one
\* that holds a blocked phrase
UserUnit(t) == IF t = 1 THEN "u1" ELSE IF t = 2 THEN "u2" ELSE "u3"
UserMessages(t) == {<<UserUnit(t)>>, <<"S", "p">>}

\* config.load_system_prompt(): the prompt file's text
SYSTEM_PROMPT == <<"y">>

\* what rag.search does when called: it raises, or returns the chunks found
\* (their contents), possibly none
SearchOutcomes ==
    {[raises |-> TRUE, results |-> <<>>], [raises |-> FALSE, results |-> <<>>],
     [raises |-> FALSE, results |-> <<<<"W">>, <<"W">>, <<"W">>>>]}

\* retrieval as a chat request meets it: does `import rag` succeed, is
\* RAG_ENABLED set, and what does rag.search do
Rag(imported, enabled, search) ==
    [imported |-> imported, enabled |-> enabled, search |-> search]
RagDisabled == Rag(TRUE, FALSE, [raises |-> FALSE, results |-> <<>>])
RagNotImported == Rag(FALSE, FALSE, [raises |-> FALSE, results |-> <<>>])
RagCases ==
    {RagNotImported, RagDisabled} \cup {Rag(TRUE, TRUE, o) : o \in SearchOutcomes}

\* rag.build_context, line 107: the heading, the label line of a chunk, and
\* the separator between chunks
REFERENCE_HEADER == <<"r">>
SourceLabel(i) == <<"l">>
SEPARATOR == <<"-">>

RECURSIVE JoinParts(_, _)
\* "\n\n---\n\n".join(parts), parts numbered from i on
JoinParts(results, i) ==
    IF results = <<>> THEN <<>>
    ELSE SourceLabel(i) \o Head(results)
             \o (IF Tail(results) = <<>> THEN <<>> ELSE SEPARATOR)
             \o JoinParts(Tail(results), i + 1)

\* a build_context that sends the reference block whatever was found
build_context_always(rag) == REFERENCE_HEADER \o JoinParts(rag.search.results, 1)

\* rag.build_context: None (NoText) when retrieval is switched off, when
\* search raises, and when nothing was found
build_context(rag) ==
    IF ~rag.enabled THEN NoText
    ELSE IF rag.search.raises THEN NoText
    ELSE IF rag.search.results = <<>> THEN NoText
    ELSE REFERENCE_HEADER \o JoinParts(rag.search.results, 1)

\* what summarise_messages does: raises, or returns a summary
SummariserOutcomes == {[ok |-> FALSE, text |-> <<>>], [ok |-> TRUE, text |-> <<"z">>]}

\* the delta contents the upstream model streams
Deltas == {<<"c">>, <<"s">>, <<"c", "P">>}

\* the body of a non-200 upstream response, and the texts of main.py's two
\* error fragments
ERROR_BODY == <<"b">>
ERR_MODEL == <<"e", "m">>
ERR_CONNECTION == <<"e", "c">>

\* server-sent events
ContentEvent(content, session_id) ==
    [type |-> "content", content |-> content, session_id |-> session_id]
DoneEvent == [type |-> "done", content |-> <<>>, session_id |-> NoSid]

\* histories a session can hold when the process starts: none yet, a long
\* conversation of long messages, a conversation one short of the message cap
Alternating(n, content) ==
    [i \in 1..n |-> Msg(IF i % 2 = 1 THEN "user" ELSE "assistant", content)]
InitHistories ==
    {<<>>, Alternating(keep + 1, <<"W">>),
     Alternating(MAX_MESSAGES_PER_SESSION - 1, <<"x">>)}

\* a Redis key's value: present = FALSE is Python's None, the key does not exist
Session(messages, expires) == [present |-> TRUE, messages |-> messages, expires |-> expires]
NoSession == [present |-> FALSE, messages |-> <<>>, expires |-> 0]
NO_EXPIRY == -1
Counter(count, expires) == [present |-> TRUE, count |-> count, expires |-> expires]
NoCounter == [present |-> FALSE, count |-> 0, expires |-> 0]

IdleTurn ==
    [pc |-> "start", ip |-> NoIp, message |-> <<>>, req_sid |-> NoSid, sid |-> NoSid,
     blocked |-> NoText, status |-> 0, header |-> NoSid,
     h0 |-> <<>>, fit |-> [system_prompt |-> <<>>, summ |-> [ok |-> FALSE, text |-> <<>>]],
     history |-> <<>>, system_prompt |-> <<>>, rag |-> RagNotImported,
     data |-> NoSession,
     full_text |-> <<>>, final |-> <<>>, events |-> <<>>, lines |-> 0, received |-> <<>>,
     upstream |-> "none", summariser |-> "none", persisted |-> FALSE, touched |-> {},
     found |-> FALSE, created |-> {}]

Init ==
    /\ now = 0
    /\ ip_hits = [ip \in Ips |-> <<>>]
    /\ \E h \in InitHistories :
          store = [s \in SessionIds |->
                      IF s = FirstSid THEN Session(h, SESSION_TTL) ELSE NoSession]
    /\ rate = [s \in SessionIds |-> NoCounter]
    /\ nextSid = FirstSid + 1
    /\ turn = [t \in Turns |-> IdleTurn]

Set(t, fields) == turn' = [turn EXCEPT ![t] = fields @@ turn[t]]

(***************************************************************************)
(* sessions.py                                                             *)
(***************************************************************************)
\* r.get of a session key: a key past its expiry is gone
get_session(session_id) ==
    IF session_id \in SessionIds /\ store[session_id].present
          /\ now < store[session_id].expires
    THEN store[session_id] ELSE NoSession

\* r.set(key, json, ex=SESSION_TTL)
r_set(session_id, messages) ==
    store' = [store EXCEPT ![session_id] = Session(messages, now + SESSION_TTL)]

\* append_message, lines 42-46: the message list it writes back
append_message_msgs(data, role, content) ==
    LastN(Append(data.messages, Msg(role, content)), MAX_MESSAGES_PER_SESSION)

\* a set_history that adds to the stored messages instead of replacing them
set_history_msgs_extend(data, messages) == data.messages \o messages

\* set_history, line 56: the message list it writes back
set_history_msgs(data, messages) == messages

\* r.get of a rate key
get_counter(session_id) ==
    IF rate[session_id].present
          /\ (rate[session_id].expires = NO_EXPIRY \/ now < rate[session_id].expires)
    THEN rate[session_id] ELSE NoCounter

\* a comparison that turns away the call that reaches the limit
rate_allowed_below(count, max_per_hour) == count < max_per_hour

\* check_rate_limit_session, line 81
rate_allowed(count, max_per_hour) == count <= max_per_hour

(***************************************************************************)
(* main.py                                                                 *)
(***************************************************************************)
\* a check_ip_rate that turns a request away only above the limit
check_ip_rate_above(hits) ==
    LET live == SelectSeq(hits, LAMBDA h : now - h < IP_WINDOW)
    IN  IF Len(live) > RATE_LIMIT_PER_MIN THEN <<FALSE, live>>
        ELSE <<TRUE, Append(live, now)>>

\* check_ip_rate: <<allowed, hits afterwards>>
check_ip_rate(hits) ==
    LET live == SelectSeq(hits, LAMBDA h : now - h < IP_WINDOW)
    IN  IF Len(live) >= RATE_LIMIT_PER_MIN THEN <<FALSE, live>>
        ELSE <<TRUE, Append(live, now)>>

\* where chat goes after the guardrail, lines 167-171
AfterGuard(session_id) ==
    IF session_id = NoSid
    THEN [pc |-> "create_session", sid |-> NoSid]
    ELSE [pc |-> "get_session", sid |-> session_id]

\* chat, lines 149-168: the address rate limit, the input guardrail, and the
\* choice between the provided session id and a new session
Receive(t, ips) ==
    /\ turn[t].pc = "start"
    /\ \E message \in UserMessages(t), session_id \in {NoSid, BogusSid, FirstSid},
          ip \in ips :
        LET r == check_ip_rate(ip_hits[ip])
            blocked == check_input(message)
            req == [ip |-> ip, message |-> message, req_sid |-> session_id]
        IN  /\ ip_hits' = [ip_hits EXCEPT ![ip] = r[2]]
            /\ IF ~r[1]
               THEN Set(t, [pc |-> "done", status |-> 429] @@ req)
               ELSE IF blocked # NoText
               THEN Set(t, [pc |-> "blocked_stream", blocked |-> blocked,
                            status |-> 200] @@ req)
               ELSE Set(t, AfterGuard(session_id) @@ req)
    /\ UNCHANGED <<now, store, rate, nextSid>>

\* blocked_stream: the reply, then the end marker
BlockedStream(t) ==
    /\ turn[t].pc \in {"blocked_stream", "blocked_done"}
    /\ IF turn[t].pc = "blocked_stream"
       THEN Set(t, [pc |-> "blocked_done",
                    events |-> Append(turn[t].events, ContentEvent(turn[t].blocked, NoSid))])
       ELSE Set(t, [pc |-> "done", events |-> Append(turn[t].events, DoneEvent)])
    /\ UNCHANGED <<now, ip_hits, store, rate, nextSid>>

\* sessions.create_session, called at line 169 or at line 173
CreateSession(t) ==
    /\ turn[t].pc \in {"create_session", "create_session_2"}
    /\ nextSid \in SessionIds
    /\ r_set(nextSid, <<>>)
    /\ nextSid' = nextSid + 1
    /\ Set(t, [pc |-> IF turn[t].pc = "create_session" THEN "get_session" ELSE "rate_incr",
               sid |-> nextSid, created |-> turn[t].created \cup {nextSid}])
    /\ UNCHANGED <<now, ip_hits, rate>>

\* info = await sessions.get_session(sid), lines 171-172
GetSession(t) ==
    /\ turn[t].pc = "get_session"
    /\ Set(t, [pc |-> IF get_session(turn[t].sid).present THEN "rate_incr"
                      ELSE "create_session_2",
               found |-> get_session(turn[t].sid).present])
    /\ UNCHANGED <<now, ip_hits, store, rate, nextSid>>

\* a chat that goes on with the turn after a failed session rate check
AfterRateCheckCharged(allowed) ==
    [pc |-> "get_history", status |-> IF allowed THEN 0 ELSE 429]

\* chat, lines 176-177: a failed session rate check raises HTTPException(429)
AfterRateCheck(allowed) ==
    [pc |-> IF allowed THEN "get_history" ELSE "done",
     status |-> IF allowed THEN 0 ELSE 429]

\* check_rate_limit_session, line 78: r.incr; and, unless the expiry is still to
\* be set, the comparison of lines 81 and 176
RateIncr(t) ==
    /\ turn[t].pc = "rate_incr"
    /\ LET sid == turn[t].sid
           old == get_counter(sid)
           count == old.count + 1
           expires == IF old.present THEN old.expires ELSE NO_EXPIRY
       IN  /\ rate' = [rate EXCEPT ![sid] = Counter(count, expires)]
           /\ Set(t, [touched |-> turn[t].touched \cup {sid}] @@
                      (IF count = 1 THEN [pc |-> "rate_expire", status |-> 0]
                       ELSE AfterRateCheck(
                                rate_allowed(count, RATE_LIMIT_PER_HOUR_SESSION))))
    /\ UNCHANGED <<now, ip_hits, store, nextSid>>

\* check_rate_limit_session, lines 79-81: r.expire(key, 3600) after the first
\* increment, then the comparison
RateExpire(t) ==
    /\ turn[t].pc = "rate_expire"
    /\ LET sid == turn[t].sid
           allowed == rate_allowed(1, RATE_LIMIT_PER_HOUR_SESSION)
       IN  /\ rate' = [rate EXCEPT ![sid] =
                          IF get_counter(sid).present
                          THEN Counter(get_counter(sid).count, now + RATE_WINDOW)
                          ELSE rate[sid]]
           /\ Set(t, [touched |-> turn[t].touched \cup {sid}] @@ AfterRateCheck(allowed))
    /\ UNCHANGED <<now, ip_hits, store, nextSid>>

\* check_rate_limit_session, line 80: the awaited r.expire raises (the Redis
\* connection is lost) or the request's task is cancelled there; nothing
\* catches it, and chat ends with a server error
RateExpireRaises(t) ==
    /\ turn[t].pc = "rate_expire"
    /\ Set(t, [pc |-> "done", status |-> 500])
    /\ UNCHANGED <<now, ip_hits, store, rate, nextSid>>

\* chat, lines 180-199: read the history, add the user message, build the system
\* prompt (a failing `import rag` is caught at line 193 and leaves the prompt
\* as it is) and trim
ContextBuild(t, rag_cases) ==
    /\ turn[t].pc = "get_history"
    /\ \E rag \in rag_cases, summ \in SummariserOutcomes :
        LET sid == turn[t].sid
            h == get_session(sid).messages
            history == Append(h, Msg("user", turn[t].message))
            rag_context == IF rag.imported THEN build_context(rag) ELSE NoText
            system_prompt == IF rag_context # NoText THEN SYSTEM_PROMPT \o rag_context
                             ELSE SYSTEM_PROMPT
            called == CallsSummariser(system_prompt, history)
        IN  /\ called \/ ~summ.ok
            /\ Set(t, [pc |-> "append_user_get", h0 |-> h,
                       fit |-> [system_prompt |-> system_prompt, summ |-> summ],
                       history |-> trim_history(system_prompt, history, summ),
                       system_prompt |-> system_prompt, rag |-> rag,
                       summariser |-> IF called THEN "called" ELSE "none",
                       touched |-> turn[t].touched \cup {sid}])
    /\ UNCHANGED <<now, ip_hits, store, rate, nextSid>>

\* writes that go to the id the request named
PersistSidRequested(t) == turn[t].req_sid

\* the id append_message and set_history are called with, lines 202, 260, 261
PersistSid(t) == turn[t].sid

\* what chat does when append_message / set_history returns
AfterWrite(t) ==
    CASE turn[t].pc \in {"append_user_get", "append_user_set"} ->
            [pc |-> "open_upstream", status |-> 200, header |-> turn[t].sid]
      [] turn[t].pc \in {"append_asst_get", "append_asst_set"} ->
            [pc |-> "set_history_get"]
      [] OTHER -> [pc |-> "done", persisted |-> TRUE]

\* append_message / set_history, first half: data = await get_session(session_id);
\* a session that does not exist ends the call
WriteGet(t) ==
    /\ turn[t].pc \in {"append_user_get", "append_asst_get", "set_history_get"}
    /\ LET data == get_session(PersistSid(t))
           touch == [touched |-> turn[t].touched \cup {PersistSid(t)}]
       IN  IF ~data.present
           THEN Set(t, touch @@ AfterWrite(t))
           ELSE Set(t, touch @@
                       [pc |-> CASE turn[t].pc = "append_user_get" -> "append_user_set"
                                 [] turn[t].pc = "append_asst_get" -> "append_asst_set"
                                 [] OTHER -> "set_history_set",
                        data |-> data])
    /\ UNCHANGED <<now, ip_hits, store, rate, nextSid>>

\* append_message / set_history, second half: change the messages of the data
\* read before and r.set it
WriteSet(t) ==
    /\ turn[t].pc \in {"append_user_set", "append_asst_set", "set_history_set"}
    /\ r_set(PersistSid(t),
             CASE turn[t].pc = "append_user_set" ->
                     append_message_msgs(turn[t].data, "user", turn[t].message)
               [] turn[t].pc = "append_asst_set" ->
                     append_message_msgs(turn[t].data, "assistant", turn[t].final)
               [] OTHER ->
                     set_history_msgs(turn[t].data,
                         Append(turn[t].history, Msg("assistant", turn[t].final))))
    /\ Set(t, [data |-> NoSession] @@ AfterWrite(t))
    /\ UNCHANGED <<now, ip_hits, rate, nextSid>>

\* a fragment that passes the upstream's error body on
NonOkFragmentBody(error_body) == error_body

\* the fragment of lines 224-225, sent for a non-200 response with this body
NonOkFragment(error_body) == ERR_MODEL

\* what stream() does after the try block when the upstream call ended in this
\* way: "non200" returns at line 227, everything else goes on to lines 255-261
AfterStream(outcome, full_text) ==
    IF outcome = "non200" THEN [pc |-> "done"]
    ELSE [pc |-> "append_asst_get", final |-> check_output_final(full_text)]

\* the events stream() yields when the upstream call ends in this way
EndEvents(outcome) ==
    CASE outcome = "non200" -> <<ContentEvent(NonOkFragment(ERROR_BODY), NoSid), DoneEvent>>
      [] outcome = "fail"   -> <<ContentEvent(ERR_CONNECTION, NoSid), DoneEvent>>
      [] outcome = "done"   -> <<DoneEvent>>
      [] OTHER              -> <<>>

\* stream(), lines 208-227: open the upstream call; it answers 200, answers
\* another status, or fails
OpenUpstream(t) ==
    /\ turn[t].pc = "open_upstream"
    /\ \E outcome \in {"200", "non200", "fail"} :
        IF outcome = "200"
        THEN Set(t, [pc |-> "stream", upstream |-> outcome])
        ELSE Set(t, [upstream |-> outcome,
                     events |-> turn[t].events \o EndEvents(outcome)]
                    @@ AfterStream(outcome, turn[t].full_text))
    /\ UNCHANGED <<now, ip_hits, store, rate, nextSid>>

\* a relay that puts the newest fragment in front of the events sent so far
RelayInFront(events, clean, session_id) ==
    IF clean # <<>> THEN <<ContentEvent(clean, session_id)>> \o events ELSE events

\* stream(), lines 242-245: a fragment that is not empty after sanitise_chunk
\* is sent on, with the session id
Relay(events, clean, session_id) ==
    IF clean # <<>> THEN Append(events, ContentEvent(clean, session_id)) ELSE events

\* stream(), lines 229-252: the next line of the upstream body is a data line
\* with one of these delta contents (NoText: a line that is skipped), or the
\* [DONE] line, or the body ends, or the transport fails
ReadLine(t, deltas, max_lines) ==
    /\ turn[t].pc = "stream"
    /\ \/ \E delta \in deltas \cup {NoText} :
            LET clean == sanitise_chunk(delta)
            IN  /\ turn[t].lines < max_lines
                /\ Set(t, [lines |-> turn[t].lines + 1,
                           received |-> Append(turn[t].received, delta),
                           full_text |-> turn[t].full_text \o clean,
                           events |-> Relay(turn[t].events, clean, turn[t].sid)])
       \/ \E outcome \in {"done", "eof", "fail"} :
            Set(t, [upstream |-> outcome, lines |-> 0,
                    events |-> turn[t].events \o EndEvents(outcome)]
                   @@ AfterStream(outcome, turn[t].full_text))
    /\ UNCHANGED <<now, ip_hits, store, rate, nextSid>>

\* stream(), lines 206-261: the client disconnects while the generator is
\* suspended at the upstream read (line 229) or at a yield (lines 231, 245).
\* CancelledError or GeneratorExit is raised there; both are BaseException, so
\* `except Exception` (line 248) does not catch them: the two `async with`
\* blocks close the upstream call and the generator ends before line 254
Cancel(t) ==
    /\ turn[t].pc = "stream"
    /\ Set(t, [pc |-> "done", upstream |-> "cancelled", lines |-> 0])
    /\ UNCHANGED <<now, ip_hits, store, rate, nextSid>>

\* the session ids a client can name: that of the session that exists at the
\* start, and every id a response has carried
KnownSids == ({FirstSid} \cup {turn[t].header : t \in Turns}) \ {NoSid}

\* DELETE /api/v1/session/{session_id}: sessions.delete_session
DeleteSession(s) ==
    /\ s \in KnownSids
    /\ store' = [store EXCEPT ![s] = NoSession]
    /\ UNCHANGED <<now, ip_hits, rate, nextSid, turn>>

\* time passes: d seconds
Tick(d) ==
    /\ now + d <= MaxNow
    /\ now' = now + d
    /\ UNCHANGED <<ip_hits, store, rate, nextSid, turn>>

\* time passes: the length of a session rate window
Hour ==
    /\ now + RATE_WINDOW <= MaxHours * RATE_WINDOW + MaxNow
    /\ now' = now + RATE_WINDOW
    /\ UNCHANGED <<ip_hits, store, rate, nextSid, turn>>

\* the one address all requests come from where addresses play no part
OneIp == {"ip1"}

TurnStep(t, ips, rag_cases, deltas, max_lines) ==
    \/ Receive(t, ips)
    \/ BlockedStream(t)
    \/ CreateSession(t)
    \/ GetSession(t)
    \/ RateIncr(t)
    \/ RateExpire(t)
    \/ ContextBuild(t, rag_cases)
    \/ WriteGet(t)
    \/ WriteSet(t)
    \/ OpenUpstream(t)
    \/ ReadLine(t, deltas, max_lines)

\* One chat request in full detail, and nothing else
NextOne == TurnStep(1, OneIp, RagCases, Deltas, MaxLines)

SpecOne == Init /\ [][NextOne]_vars

\* One chat request in full detail, with sessions deleted while it runs
NextTurn ==
    \/ TurnStep(1, OneIp, RagCases, Deltas, MaxLines)
    \/ \E s \in SessionIds : DeleteSession(s)

SpecTurn == Init /\ [][NextTurn]_vars

\* All chat requests at once, and no session deleted.  The requests that run at
\* once get no reference data, and a completion of at most one line
SmallStep(t) == TurnStep(t, OneIp, {RagDisabled}, {<<"s">>}, 1)

NextRace == \E t \in Turns : SmallStep(t)

SpecRace == Init /\ [][NextRace]_vars

\* All chat requests at once, with sessions deleted while they run
Next ==
    \/ \E t \in Turns : SmallStep(t)
    \/ \E s \in SessionIds : DeleteSession(s)

Spec == Init /\ [][Next]_vars

\* n requests counted at this time
Hits(n, at) == [i \in 1..n |-> at]

\* what _ip_hits holds for an address: nothing, a full window of requests made
\* just now, or half a window's worth made half a window ago and half just now
InitHits ==
    {<<>>, Hits(RATE_LIMIT_PER_MIN, 0),
     Hits(RATE_LIMIT_PER_MIN \div 2, 0 - IP_WINDOW \div 2)
         \o Hits(RATE_LIMIT_PER_MIN \div 2, 0)}

\* what a session's rate key holds: nothing, or the count of a window that
\* began just now, one short of the limit or at the limit
InitCounters ==
    {NoCounter, Counter(RATE_LIMIT_PER_HOUR_SESSION - 1, RATE_WINDOW),
     Counter(RATE_LIMIT_PER_HOUR_SESSION, RATE_WINDOW)}

\* The service after it has served requests: one address has made requests,
\* and the session that exists has been used in the current hour
InitLimit ==
    /\ now = 0
    /\ \E hits \in InitHits :
          ip_hits = [ip \in Ips |-> IF ip = "ip1" THEN hits ELSE <<>>]
    /\ \E h \in InitHistories :
          store = [s \in SessionIds |->
                      IF s = FirstSid THEN Session(h, SESSION_TTL) ELSE NoSession]
    /\ \E c \in InitCounters :
          rate = [s \in SessionIds |-> IF s = FirstSid THEN c ELSE NoCounter]
    /\ nextSid = FirstSid + 1
    /\ turn = [t \in Turns |-> IdleTurn]

\* One chat request from one of two addresses, while time passes
NextLimit ==
    \/ TurnStep(1, Ips, {RagDisabled}, {<<"s">>}, 1)
    \/ Tick(IP_WINDOW \div 2)
    \/ Hour

SpecLimit == InitLimit /\ [][NextLimit]_vars

\* a chat request that is about to call check_rate_limit_session for the
\* session that exists (chat, line 176)
AtRateCheck(t) ==
    [pc |-> "rate_incr", ip |-> "ip1", message |-> <<UserUnit(t)>>,
     req_sid |-> FirstSid, sid |-> FirstSid, found |-> TRUE] @@ IdleTurn

\* All chat requests have resolved the same session and are about to call
\* check_rate_limit_session
InitRate ==
    /\ now = 0
    /\ ip_hits = [ip \in Ips |-> IF ip = "ip1" THEN Hits(NumTurns, 0) ELSE <<>>]
    /\ \E h \in InitHistories :
          store = [s \in SessionIds |->
                      IF s = FirstSid THEN Session(h, SESSION_TTL) ELSE NoSession]
    /\ \E c \in InitCounters :
          rate = [s \in SessionIds |-> IF s = FirstSid THEN c ELSE NoCounter]
    /\ nextSid = FirstSid + 1
    /\ turn = [t \in Turns |-> AtRateCheck(t)]

\* The calls of check_rate_limit_session that chat requests make at once for
\* one session, while time passes
NextRate ==
    \/ \E t \in Turns : RateIncr(t)
    \/ \E t \in Turns : RateExpire(t)
    \/ Tick(IP_WINDOW \div 2)
    \/ Hour

SpecRate == InitRate /\ [][NextRate]_vars

\* One chat request whose client can disconnect while the reply streams
NextCancel ==
    \/ TurnStep(1, OneIp, {RagDisabled}, Deltas, MaxLines)
    \/ Cancel(1)

SpecCancel == Init /\ [][NextCancel]_vars

\* The same calls, any of which can fail between r.incr and r.expire
NextRateFail ==
    \/ \E t \in Turns : RateIncr(t)
    \/ \E t \in Turns : RateExpire(t)
    \/ \E t \in Turns : RateExpireRaises(t)
    \/ Tick(IP_WINDOW \div 2)
    \/ Hour

SpecRateFail == InitRate /\ [][NextRateFail]_vars

\* the characters of a model response: letters of the leak patterns in both
\* cases, a character of the stripped script, and the letters of the safe reply
TextUnits == {"s", "p", "S", "P", "m", "c", "h", "k"}

\* every text of at most MaxLen characters
Texts == UNION {[1..n -> TextUnits] : n \in 0..MaxLen}

\* One chat request whose upstream call answers with one fragment, which is
\* any text of at most MaxLen characters
NextGuard == TurnStep(1, OneIp, {RagDisabled}, Texts, 1)

SpecGuard == Init /\ [][NextGuard]_vars

\* fragments of a response that is split inside, before and after runs of the
\* stripped script
SplitDeltas ==
    Deltas \cup {<<"P">>, <<"s", "c">>, <<"c", "c">>, <<"P", "c", "s">>}

\* One chat request whose upstream call answers with such fragments
NextSplit == TurnStep(1, OneIp, {RagDisabled}, SplitDeltas, MaxLines)

SpecSplit == Init /\ [][NextSplit]_vars

\* retrieval that leaves the whole budget, a part of it, or less than one long
\* message of it
FitCases ==
    {RagDisabled,
     Rag(TRUE, TRUE, [raises |-> FALSE, results |-> <<<<"W">>, <<"W">>, <<"W">>>>]),
     Rag(TRUE, TRUE, [raises |-> FALSE,
                      results |-> <<<<"W", "W">>, <<"W", "W">>, <<"W", "W">>>>])}

\* One chat request whose history is trimmed against such budgets
NextFit == TurnStep(1, OneIp, FitCases, {<<"s">>}, 1)

SpecFit == Init /\ [][NextFit]_vars

(***************************************************************************)
(* Properties                                                              *)
(***************************************************************************)
Range(seq) == {seq[i] : i \in 1..Len(seq)}

UserMsg(t) == Msg("user", turn[t].message)
AssistantMsg(t) == Msg("assistant", turn[t].final)

\* the turn went through lines 255-261 and its stream has ended
Persisted(t) == turn[t].pc = "done" /\ turn[t].persisted

\* trim_history gave the turn's history back as it was
Untrimmed(t) == turn[t].history = Append(turn[t].h0, UserMsg(t))

\* the session the turn works on exists in the store
SessionPresent(t) == turn[t].sid \in SessionIds /\ get_session(turn[t].sid).present

StoredMessages(t) == get_session(turn[t].sid).messages

\* C1: when two chat turns for the same session run at once, every message
\* either of them appended is in the session's stored history once both have
\* finished (neither history was trimmed, and the session holds fewer messages
\* than the cap)
C1_NoLostUpdate ==
    \A t1 \in Turns, t2 \in Turns :
        ( /\ t1 # t2
          /\ Persisted(t1) /\ Persisted(t2)
          /\ turn[t1].sid = turn[t2].sid
          /\ Untrimmed(t1) /\ Untrimmed(t2)
          /\ SessionPresent(t1)
          /\ Len(StoredMessages(t1)) < MAX_MESSAGES_PER_SESSION )
        => {UserMsg(t1), AssistantMsg(t1), UserMsg(t2), AssistantMsg(t2)}
               \subseteq Range(StoredMessages(t1))

\* C2: every stored session holds at most MAX_MESSAGES_PER_SESSION messages
C2_MessageCap ==
    \A s \in SessionIds :
        store[s].present => Len(store[s].messages) <= MAX_MESSAGES_PER_SESSION

\* zero or more content events, then the end marker, once and last
EndsWithDone(events) ==
    /\ events # <<>>
    /\ events[Len(events)] = DoneEvent
    /\ \A i \in 1..(Len(events) - 1) : events[i].type = "content"

\* C3: a response stream that has ended is zero or more content events
\* followed by the end marker, which occurs once and is the last event
C3_EndMarker ==
    \A t \in Turns :
        (turn[t].pc = "done" /\ turn[t].status = 200) => EndsWithDone(turn[t].events)

\* the turn passed the address rate limit with a message check_input blocks
InputBlocked(t) ==
    /\ turn[t].pc # "start"
    /\ turn[t].status # 429
    /\ check_input(turn[t].message) # NoText

\* C4 (state part): a blocked turn sends the safe reply as its only content
\* event and then the end marker, and calls neither the upstream model nor the
\* summariser
C4_ShortCircuitState ==
    \A t \in Turns :
        InputBlocked(t) =>
            /\ turn[t].pc \in {"blocked_stream", "blocked_done", "done"}
            /\ turn[t].pc = "blocked_done"
                   => turn[t].events = <<ContentEvent(SAFE_RESPONSE, NoSid)>>
            /\ turn[t].pc = "done"
                   => turn[t].events = <<ContentEvent(SAFE_RESPONSE, NoSid), DoneEvent>>
            /\ turn[t].upstream = "none"
            /\ turn[t].summariser = "none"

\* C4 (step part): no step of a blocked turn changes the messages of a session
C4_ShortCircuitStep ==
    \A t \in Turns :
        (InputBlocked(t)' /\ turn'[t] # turn[t]) =>
            \A s \in SessionIds :
                get_session(s).present =>
                    /\ get_session(s)'.present
                    /\ get_session(s)'.messages = get_session(s).messages

\* C4: for every message check_input blocks the turn short-circuits: the stream
\* is one content event with the fixed safe reply and then the end marker, no
\* upstream or summariser call is made, and no session's history is modified
C4_ShortCircuit == [](C4_ShortCircuitState) /\ [][C4_ShortCircuitStep]_vars

C4_Witness ==
    \E t \in Turns :
        InputBlocked(t) /\ turn[t].pc = "done" /\ turn[t].req_sid = FirstSid

\* C5: after a blocked turn a session exists whose id the response carried
C5_BlockedSessionResolved ==
    \A t \in Turns :
        (InputBlocked(t) /\ turn[t].pc = "done") =>
            /\ turn[t].header # NoSid
            /\ turn[t].header \in SessionIds
            /\ store[turn[t].header].present

\* the turn is past SESSION_RESOLVE (lines 167-173)
Resolved(t) ==
    turn[t].pc \in {"rate_incr", "rate_expire", "get_history", "append_user_get",
                    "append_user_set", "open_upstream", "stream", "append_asst_get",
                    "append_asst_set", "set_history_get", "set_history_set"}
    \/ (turn[t].pc = "done" /\ turn[t].sid # NoSid)

\* C6: the session id of a turn that passed both gates is the provided id if
\* and only if a session with that id existed when it was looked up, and is
\* otherwise the id of a session this turn created; the rate counter, the
\* history read, the appends and the history replacement all go to that id,
\* and it is the id the response header and the relayed fragments carry
C6_SessionResolve ==
    \A t \in Turns :
        Resolved(t) =>
            LET e == turn[t].sid
                provided == turn[t].req_sid
            IN  /\ (e = provided) <=> (provided # NoSid /\ turn[t].found)
                /\ (e # provided) => (e \in turn[t].created)
                /\ turn[t].touched \subseteq {e}
                /\ turn[t].header \in {NoSid, e}
                /\ \A i \in 1..Len(turn[t].events) :
                       turn[t].events[i].session_id \in {NoSid, e}

C6_Witness ==
    \E t \in Turns :
        /\ turn[t].pc = "done" /\ turn[t].persisted
        /\ turn[t].req_sid = FirstSid
        /\ turn[t].header # NoSid /\ turn[t].header # FirstSid
        /\ turn[t].touched = {turn[t].header}

ErrorTexts == {ERR_MODEL, ERR_CONNECTION}

\* C7: when the upstream call answers another status than 200 or fails, before,
\* between or after relayed fragments, the stream is the fragments relayed so
\* far, then one error fragment with a fixed text, then the end marker; the
\* upstream's error body is never sent
C7_UpstreamError ==
    \A t \in Turns :
        turn[t].upstream \in {"non200", "fail"} =>
            LET ev == turn[t].events
                n == Len(ev)
            IN  /\ n >= 2
                /\ ev[n] = DoneEvent
                /\ ev[n - 1].type = "content"
                /\ ev[n - 1].session_id = NoSid
                /\ ev[n - 1].content \in ErrorTexts
                /\ ev[n - 1].content = IF turn[t].upstream = "non200"
                                       THEN ERR_MODEL ELSE ERR_CONNECTION
                /\ \A i \in 1..(n - 2) :
                       /\ ev[i].type = "content"
                       /\ ev[i].session_id = turn[t].sid
                       /\ ev[i].content \notin ErrorTexts
                /\ \A i \in 1..n : ev[i].content # ERROR_BODY
                /\ turn[t].pc \in {"append_asst_get", "append_asst_set",
                                   "set_history_get", "set_history_set", "done"}

C7_Witness ==
    \E t \in Turns :
        /\ turn[t].upstream = "fail"
        /\ Len(turn[t].events) = 3
        /\ turn[t].full_text = <<"s">>

\* C8: a turn that opened the upstream call has run the output guard and the
\* persistence stage when it is done
C8_PersistBeforeDone ==
    \A t \in Turns :
        (turn[t].pc = "done" /\ turn[t].upstream # "none") => turn[t].persisted

\* the turn is at or past the opening of the upstream call
AtUpstream(t) ==
    turn[t].pc \in {"open_upstream", "stream", "append_asst_get", "append_asst_set",
                    "set_history_get", "set_history_set"}
    \/ (turn[t].pc = "done" /\ turn[t].upstream # "none")

\* C9: from the opening of the upstream call on, the stored history of the
\* turn's session holds the turn's user message, also when the upstream call
\* answers another status than 200 or fails
C9_UserMessageRecorded ==
    \A t \in Turns :
        (AtUpstream(t) /\ SessionPresent(t)) => UserMsg(t) \in Range(StoredMessages(t))

\* the contents of the fragments relayed to the client, in order
RECURSIVE RelayedContents(_, _)
RelayedContents(events, sid) ==
    IF events = <<>> THEN <<>>
    ELSE (IF Head(events).type = "content" /\ Head(events).session_id = sid
          THEN <<Head(events).content>> ELSE <<>>)
         \o RelayedContents(Tail(events), sid)

Occurrences(seq, x) == Cardinality({i \in 1..Len(seq) : seq[i] = x})

\* C10: after a turn on an existing session with stored history H whose upstream
\* call answered 200 and completed, the stored history is
\* fit(system prompt, H ++ [user message]) ++ [final assistant message], the
\* final assistant message being check_output_final of the concatenated relayed
\* fragments, and the user message occurs in it once
C10_StoredHistory ==
    \A t \in Turns :
        ( /\ Persisted(t)
          /\ turn[t].upstream \in {"done", "eof"}
          /\ SessionPresent(t) )
        => LET final == check_output_final(
                            Concat(RelayedContents(turn[t].events, turn[t].sid)))
               fitted == trim_history(turn[t].fit.system_prompt,
                                      Append(turn[t].h0, UserMsg(t)), turn[t].fit.summ)
           IN  /\ StoredMessages(t) = Append(fitted, Msg("assistant", final))
               /\ Occurrences(StoredMessages(t), UserMsg(t)) = 1

C10_Witness ==
    \E t \in Turns :
        /\ Persisted(t)
        /\ turn[t].upstream = "done"
        /\ SessionPresent(t)
        /\ turn[t].req_sid = FirstSid /\ turn[t].sid = FirstSid
        /\ turn[t].summariser = "called"
        /\ turn[t].fit.summ.ok
        /\ Len(turn[t].history) < keep + 1
        /\ turn[t].final = SAFE_RESPONSE

\* the text holds a leak pattern, in any case of the letters
HoldsLeak(text) == \E pattern \in LEAK_PATTERNS : Contains(Lower(text), pattern)

HoldsCJK(text) == \E i \in 1..Len(text) : IsCJK(text[i])

\* stream() has computed `final` (line 255)
FinalComputed(t) ==
    turn[t].pc \in {"append_asst_get", "append_asst_set", "set_history_get",
                    "set_history_set"}
    \/ Persisted(t)

\* C11: every assistant message stored in a session is the fixed safe reply, or
\* a text with no leak pattern and no character of the stripped script; and
\* when the accumulated response holds a leak pattern the final text is the
\* safe reply, whatever came before the match
C11_OutputGuard ==
    /\ \A s \in SessionIds :
          store[s].present =>
              \A i \in 1..Len(store[s].messages) :
                  LET m == store[s].messages[i]
                  IN  m.role = "assistant" =>
                          \/ m.content = SAFE_RESPONSE
                          \/ ~HoldsLeak(m.content) /\ ~HoldsCJK(m.content)
    /\ \A t \in Turns :
          (FinalComputed(t) /\ HoldsLeak(turn[t].full_text))
              => turn[t].final = SAFE_RESPONSE

C11_Witness ==
    \E t \in Turns :
        /\ Persisted(t)
        /\ turn[t].full_text = <<"s", "P">>
        /\ Len(RelayedContents(turn[t].events, turn[t].sid)) = 2
        /\ SessionPresent(t)
        /\ StoredMessages(t)[Len(StoredMessages(t))] = Msg("assistant", SAFE_RESPONSE)

\* the stages of chat up to and including the session rate check
GatePcs ==
    {"start", "create_session", "get_session", "create_session_2", "rate_incr",
     "rate_expire"}

\* the turn was turned away by a rate check
RateLimited(t) == turn[t].status = 429

\* C12 (state part): a turn that a rate check turned away has ended there: it
\* never read a history, called the summariser or the upstream model, sent an
\* event or began a write
C12_RateLimitedState ==
    \A t \in Turns :
        RateLimited(t) =>
            /\ turn[t].pc = "done"
            /\ turn[t].upstream = "none"
            /\ turn[t].summariser = "none"
            /\ turn[t].system_prompt = <<>> /\ turn[t].history = <<>>
            /\ turn[t].events = <<>>
            /\ turn[t].data = NoSession /\ ~turn[t].persisted

\* C12 (step part): no step of a turn up to the session rate check changes
\* the messages of a session that exists; and the step in which the address
\* rate check turns a request away changes neither the sessions nor the
\* session rate counters, and the turn has worked on no session
C12_RateLimitedStep ==
    \A t \in Turns :
        /\ (turn'[t] # turn[t] /\ turn[t].pc \in GatePcs) =>
               \A s \in SessionIds :
                   get_session(s).present =>
                       /\ get_session(s)'.present
                       /\ get_session(s)'.messages = get_session(s).messages
        /\ (turn[t].pc = "start" /\ RateLimited(t)') =>
               /\ UNCHANGED <<store, rate, nextSid>>
               /\ turn'[t].sid = NoSid
               /\ turn'[t].touched = {} /\ turn'[t].created = {}

\* C12: a turn that a rate check turns away leaves the history of every
\* session as it was and calls neither the upstream model nor the summariser;
\* one turned away by the address rate check does nothing at all in the
\* session store
C12_RateLimited == [](C12_RateLimitedState) /\ [][C12_RateLimitedStep]_vars

C12_Witness ==
    \E t \in Turns :
        /\ RateLimited(t)
        /\ turn[t].sid = FirstSid
        /\ turn[t].touched = {FirstSid}
        /\ get_session(FirstSid).messages # <<>>
        /\ get_counter(FirstSid).count = RATE_LIMIT_PER_HOUR_SESSION + 1

\* C13: the response of a turn that the session rate check turned away
\* carries the id of the session the turn resolved
C13_RateLimitedSid ==
    \A t \in Turns :
        (RateLimited(t) /\ turn[t].sid # NoSid) => turn[t].header = turn[t].sid

\* C14: a call of check_rate_limit_session adds one to the session's count in
\* one step and is turned away exactly when the count it reached is above the
\* limit, so that of the calls of one window, in the order of their
\* increments, the first RATE_LIMIT_PER_HOUR_SESSION are allowed and all later
\* ones are not; the count of a window never goes down; and the first call
\* after the window has ended is allowed
C14_RateStep ==
    /\ \A t \in Turns :
          LET s == turn[t].sid
              reached == get_counter(s).count + 1
          IN  /\ (turn[t].pc = "rate_incr" /\ turn'[t] # turn[t]) =>
                     /\ get_counter(s)'.present
                     /\ get_counter(s)'.count = reached
                     /\ RateLimited(t)' <=> (reached > RATE_LIMIT_PER_HOUR_SESSION)
                     /\ ~RateLimited(t)' => turn'[t].pc \in {"rate_expire", "get_history"}
                     /\ ~get_counter(s).present => ~RateLimited(t)'
              /\ (turn[t].pc = "rate_expire" /\ turn'[t] # turn[t]) =>
                     /\ ~RateLimited(t)' /\ turn'[t].pc = "get_history"
                     /\ get_counter(s)'.count = get_counter(s).count
    /\ \A s \in SessionIds :
          (get_counter(s).present /\ get_counter(s)'.present)
              => get_counter(s)'.count >= get_counter(s).count

C14_RateAtomic == [][C14_RateStep]_vars

C14_Witness ==
    \E t1 \in Turns, t2 \in Turns :
        /\ turn[t1].sid = turn[t2].sid
        /\ turn[t1].pc = "get_history"
        /\ RateLimited(t2) /\ turn[t2].pc = "done"
        /\ get_counter(turn[t1].sid).count = RATE_LIMIT_PER_HOUR_SESSION + 1

\* the requests of an address that were counted in the window that ends now
LiveHits(ip) == {i \in 1..Len(ip_hits[ip]) : now - ip_hits[ip][i] < IP_WINDOW}

\* C15 (state part): no address has more than RATE_LIMIT_PER_MIN counted
\* requests in any IP_WINDOW seconds
C15_IpRateState ==
    \A ip \in Ips :
        LET h == ip_hits[ip]
        IN  \A i \in 1..Len(h) :
                Cardinality({j \in 1..Len(h) : h[i] <= h[j] /\ h[j] < h[i] + IP_WINDOW})
                    <= RATE_LIMIT_PER_MIN

\* C15 (step part): a request is turned away if RATE_LIMIT_PER_MIN requests of
\* its address were counted in the window that ends now, and is allowed and
\* counted if fewer were, as after the window has rolled over; the counts of
\* the other addresses play no part and stay as they are
C15_IpRateStep ==
    \A t \in Turns :
        (turn[t].pc = "start" /\ turn'[t].pc # "start") =>
            LET ip == turn'[t].ip
                live == Cardinality(LiveHits(ip))
            IN  /\ live >= RATE_LIMIT_PER_MIN => RateLimited(t)'
                /\ live < RATE_LIMIT_PER_MIN =>
                       /\ ~RateLimited(t)'
                       /\ Len(ip_hits'[ip]) = live + 1
                       /\ ip_hits'[ip][live + 1] = now
                /\ \A other \in Ips \ {ip} : ip_hits'[other] = ip_hits[other]

\* C15: with 20 requests of an address counted in the last 60 seconds the
\* next one is turned away; a request after the window has rolled over is
\* allowed; addresses are counted independently
C15_IpRate == [](C15_IpRateState) /\ [][C15_IpRateStep]_vars

C15_Witness ==
    \E t \in Turns :
        /\ turn[t].ip = "ip1" /\ turn[t].pc # "start" /\ ~RateLimited(t)
        /\ now = IP_WINDOW \div 2
        /\ ip_hits["ip1"] = Hits(RATE_LIMIT_PER_MIN \div 2, 0) \o <<now>>

\* the turn has built its context (chat, lines 180-199)
PastContext(t) == turn[t].system_prompt # <<>>

\* the history trim_history was called with
FitInput(t) == Append(turn[t].h0, UserMsg(t))

\* C16: when the history with the user message counts no more tokens than the
\* budget left by the system prompt, trim_history gives it back unchanged and
\* the summariser is not called
C16_FitNoOp ==
    \A t \in Turns :
        ( /\ PastContext(t)
          /\ count_messages_tokens(FitInput(t)) <= Budget(turn[t].system_prompt) )
        => /\ turn[t].history = FitInput(t)
           /\ turn[t].summariser = "none"

C16_Witness ==
    \E t \in Turns :
        /\ PastContext(t)
        /\ turn[t].system_prompt # SYSTEM_PROMPT
        /\ Len(turn[t].h0) = MAX_MESSAGES_PER_SESSION - 1
        /\ turn[t].history = FitInput(t)

\* C17: when the history is over the budget and has more than `keep`
\* messages, what trim_history returns is over the budget by no more than the
\* token count of its first and its last message (the summary and the newest
\* message), also when the summariser fails
C17_FitBound ==
    \A t \in Turns :
        ( /\ PastContext(t)
          /\ count_messages_tokens(FitInput(t)) > Budget(turn[t].system_prompt)
          /\ Len(FitInput(t)) > keep )
        => LET h == turn[t].history
           IN  count_messages_tokens(h) - Budget(turn[t].system_prompt)
                   <= count_messages_tokens(<<h[1], h[Len(h)]>>)

\* trim_history called the summariser and the call failed
SummariserFailed(t) == turn[t].summariser = "called" /\ ~turn[t].fit.summ.ok

\* C18 (state part): when the summariser fails, the history of the turn is
\* the `keep` most recent messages and the turn is on its way to the upstream
\* call or past it, with no error status
C18_SummariserFailsState ==
    \A t \in Turns :
        SummariserFailed(t) =>
            /\ turn[t].history = LastN(FitInput(t), keep)
            /\ Len(turn[t].history) = keep
            /\ turn[t].pc \notin GatePcs \cup {"get_history", "blocked_stream", "blocked_done"}
            /\ turn[t].status \in {0, 200}
            /\ turn[t].pc = "done" => turn[t].upstream # "none"

\* C18 (step part): after a failed summariser call the turn goes on as any
\* other: it stores the user message and opens the upstream call
C18_SummariserFailsStep ==
    \A t \in Turns :
        (SummariserFailed(t) /\ turn'[t] # turn[t]) =>
            /\ turn[t].pc = "append_user_get"
                   => turn'[t].pc \in {"append_user_set", "open_upstream"}
            /\ turn[t].pc = "append_user_set" => turn'[t].pc = "open_upstream"
            /\ turn[t].pc = "open_upstream" => turn'[t].upstream # "none"

\* C18: if the summariser call fails, trim_history returns the `keep` most
\* recent messages and raises nothing, and the turn goes on to the upstream
\* call
C18_SummariserFails ==
    [](C18_SummariserFailsState) /\ [][C18_SummariserFailsStep]_vars

C18_Witness ==
    \E t \in Turns :
        /\ SummariserFailed(t)
        /\ turn[t].upstream = "done"
        /\ Persisted(t)

\* the turn is in append_message or set_history, between its read of the
\* session and its r.set
InWrite(t) == turn[t].pc \in {"append_user_set", "append_asst_set", "set_history_set"}

\* C19 (step): a session that does not exist is not made to exist by the
\* append_message or set_history of a turn
C19_NoResurrectionStep ==
    \A t \in Turns, s \in SessionIds :
        (InWrite(t) /\ turn'[t] # turn[t] /\ ~get_session(s).present)
            => ~get_session(s)'.present

\* C19: append_message and set_history do nothing when the session no longer
\* exists, also when it is deleted while they run: after a delete, reads of
\* the id find nothing, and no write of a turn makes the id readable again
C19_NoResurrection == [][C19_NoResurrectionStep]_vars

\* build_context ran and had nothing to return: retrieval is switched off,
\* search raised, or search found nothing
RetrievalAbsent(rag) ==
    rag.imported /\ (~rag.enabled \/ rag.search.raises \/ rag.search.results = <<>>)

\* C20 (state part): when retrieval has nothing to return, build_context
\* returns None, the system prompt of the turn is the configured prompt as it
\* is, the history was trimmed against that prompt, and the turn is on its way
\* to the upstream call or past it, with no error status
C20_RetrievalAbsentState ==
    \A t \in Turns :
        (PastContext(t) /\ RetrievalAbsent(turn[t].rag)) =>
            /\ build_context(turn[t].rag) = NoText
            /\ turn[t].system_prompt = SYSTEM_PROMPT
            /\ turn[t].history = trim_history(SYSTEM_PROMPT, FitInput(t), turn[t].fit.summ)
            /\ turn[t].pc \notin GatePcs \cup {"get_history", "blocked_stream", "blocked_done"}
            /\ turn[t].status \in {0, 200}
            /\ turn[t].pc = "done" => turn[t].upstream # "none"

\* C20 (step part): such a turn stores the user message and opens the
\* upstream call
C20_RetrievalAbsentStep ==
    \A t \in Turns :
        (PastContext(t) /\ RetrievalAbsent(turn[t].rag) /\ turn'[t] # turn[t]) =>
            /\ turn[t].pc = "append_user_get"
                   => turn'[t].pc \in {"append_user_set", "open_upstream"}
            /\ turn[t].pc = "append_user_set" => turn'[t].pc = "open_upstream"
            /\ turn[t].pc = "open_upstream" => turn'[t].upstream # "none"

\* C20: retrieval never fails a turn: with retrieval switched off, a search
\* that raises, or a search that finds nothing, build_context returns None,
\* the system prompt sent upstream is the configured one unmodified, and the
\* turn goes on to trimming and the upstream call
C20_RetrievalAbsent ==
    [](C20_RetrievalAbsentState) /\ [][C20_RetrievalAbsentStep]_vars

C20_Witness ==
    \E t \in Turns :
        /\ turn[t].rag.imported /\ turn[t].rag.enabled /\ turn[t].rag.search.raises
        /\ turn[t].system_prompt = SYSTEM_PROMPT
        /\ turn[t].upstream = "done"
        /\ Persisted(t)

\* what the relay of these upstream fragments must send: the fragments in
\* their order of arrival, stripped of the script, the empty ones left out
RECURSIVE SanitisedFragments(_)
SanitisedFragments(fragments) ==
    IF fragments = <<>> THEN <<>>
    ELSE (IF SelectSeq(Head(fragments), NotCJK) # <<>>
          THEN <<SelectSeq(Head(fragments), NotCJK)>> ELSE <<>>)
         \o SanitisedFragments(Tail(fragments))

\* the content events of the turn, without the error fragment that stream()
\* itself adds when the upstream call fails
RECURSIVE UpstreamEvents(_)
UpstreamEvents(events) ==
    IF events = <<>> THEN <<>>
    ELSE (IF Head(events).type = "content" /\ Head(events).content \notin ErrorTexts
          THEN <<Head(events)>> ELSE <<>>)
         \o UpstreamEvents(Tail(events))

\* C21: in a turn that reached the upstream call, the content events sent to
\* the client are the upstream fragments in their order of arrival, each
\* stripped by sanitise_chunk, those that are empty before or after that left
\* out, none merged, repeated or moved, and each carries the turn's session id
C21_RelayOrder ==
    \A t \in Turns :
        AtUpstream(t) =>
            LET sent == UpstreamEvents(turn[t].events)
                expected == SanitisedFragments(turn[t].received)
            IN  /\ Len(sent) = Len(expected)
                /\ \A i \in 1..Len(sent) :
                       /\ sent[i].content = expected[i]
                       /\ sent[i].session_id = turn[t].sid

C21_Witness ==
    \E t \in Turns :
        /\ turn[t].received = <<<<"c", "P">>, <<"s">>>>
        /\ turn[t].upstream = "done"
        /\ Len(turn[t].events) = 3

\* the text the upstream model sent in this turn, as it arrived
RawText(t) == Concat(turn[t].received)

\* C22: check_output_final is idempotent: applied to its own result it
\* returns that result, for the text the upstream model sent as it arrived
\* and for the text stream() accumulated from it; the safe reply is a fixed
\* point, and so is the final text stream() computed
C22_Idempotent ==
    /\ check_output_final(SAFE_RESPONSE) = SAFE_RESPONSE
    /\ \A t \in Turns :
          /\ \A x \in {RawText(t), turn[t].full_text} :
                 check_output_final(check_output_final(x)) = check_output_final(x)
          /\ FinalComputed(t) => check_output_final(turn[t].final) = turn[t].final

C22_Witness ==
    \E t \in Turns :
        /\ FinalComputed(t)
        /\ RawText(t) = <<"s", "c", "P">>
        /\ turn[t].final = SAFE_RESPONSE
        /\ check_output_final(turn[t].final) = SAFE_RESPONSE

\* sanitise_chunk of each fragment
SanitisedEach(fragments) ==
    [i \in 1..Len(fragments) |-> sanitise_chunk(fragments[i])]

\* C23: sanitise_chunk of the fragments of a text, concatenated, is
\* sanitise_chunk of the whole text, and is the text stream() accumulates; the
\* script filter that check_output_final applies again leaves that text as it
\* is, so that the final text is the accumulated text or the safe reply
C23_SanitiseSplit ==
    \A t \in Turns :
        /\ Concat(SanitisedEach(turn[t].received)) = sanitise_chunk(RawText(t))
        /\ turn[t].full_text = sanitise_chunk(RawText(t))
        /\ FinalComputed(t) =>
               /\ SelectSeq(turn[t].full_text, NotCJK) = turn[t].full_text
               /\ turn[t].final \in {turn[t].full_text, SAFE_RESPONSE}

C23_Witness ==
    \E t \in Turns :
        /\ turn[t].received = <<<<"s", "c">>, <<"c", "P">>>>
        /\ turn[t].full_text = <<"s", "P">>
        /\ FinalComputed(t)

\* trim_history did not give its input back
Trimmed(t) == PastContext(t) /\ turn[t].history # FitInput(t)

\* trim_history got a summary from the summariser
Summarised(t) == turn[t].summariser = "called" /\ turn[t].fit.summ.ok

\* C24: when trim_history trims, the last message of the result is the last
\* message of the input; when the summariser succeeded, the first message is
\* the summary in the system role and the rest is an end piece of the recent
\* messages (only messages between the summary and the newest one were
\* dropped, from the front), the result fits the budget or has two messages,
\* and with one message more it would not fit
C24_TrimShape ==
    \A t \in Turns :
        Trimmed(t) =>
            LET input == FitInput(t)
                result == turn[t].history
                recent == LastN(input, keep)
                budget == Budget(turn[t].system_prompt)
            IN  /\ result # <<>>
                /\ result[Len(result)] = input[Len(input)]
                /\ Summarised(t) =>
                       /\ result[1] = Msg("system", SUMMARY_MARKER \o turn[t].fit.summ.text)
                       /\ \E k \in 1..Len(recent) :
                              /\ Tail(result) = LastN(recent, k)
                              /\ count_messages_tokens(result) <= budget \/ k = 1
                              /\ k < Len(recent) =>
                                     count_messages_tokens(
                                         <<result[1]>> \o LastN(recent, k + 1)) > budget

C24_Witness ==
    \E t \in Turns :
        /\ Trimmed(t) /\ Summarised(t)
        /\ Len(turn[t].history) > 2
        /\ Len(turn[t].history) < keep + 1
        /\ turn[t].upstream = "done"

\* C25: a session rate counter that exists has an expiry, or the call that
\* made its first increment is about to set one: no counter stays without
\* an expiry
C25_CounterExpiry ==
    \A s \in SessionIds :
        (get_counter(s).present /\ get_counter(s).expires = NO_EXPIRY)
            => \E t \in Turns : turn[t].pc = "rate_expire" /\ turn[t].sid = s

\* C26: a turn whose stream was cancelled by a client disconnect has passed the
\* text accumulated so far through check_output_final and stored the result as
\* the assistant message of the turn
C26_CancelPersists ==
    \A t \in Turns :
        (turn[t].upstream = "cancelled" /\ SessionPresent(t))
            => /\ Persisted(t)
               /\ turn[t].final = check_output_final(turn[t].full_text)
               /\ StoredMessages(t) # <<>>
               /\ StoredMessages(t)[Len(StoredMessages(t))] = AssistantMsg(t)

=============================================================================
